---- MODULE Spec2Model ----
(***************************************************************************)
(* Model of the multi-site price finder (src/app.py): the scraping         *)
(* pipeline scrape_site with its helpers, and the "if run:" block that     *)
(* drives it over the configured site rows.                                *)
(*                                                                         *)
(* Text is a sequence of one-character strings; a few multi-character      *)
(* literals of the program ("{query}", "Unnamed site", the two sentinel    *)
(* titles, the fixed tail of the ValueError message) are single tokens,    *)
(* none of which can be matched by a text over the letters used here.      *)
(* Optional values are sequences of length at most one (<<>> is None).     *)
(* Prices are integers standing for the floats of the program.             *)
(***************************************************************************)
EXTENDS Integers, Sequences, FiniteSets, TLC

\* query, delay   the sidebar inputs (lines 234, 238)
\* rows           the site table, st.session_state.sites_df (lines 243-274)
\* web            which pages the sites may answer with: "any" or "few"
\* pc, i          where the run block is, and the row the loop is at
\* cfg            the SiteConfig of the current row (lines 286-295)
\* search_url, doc, found        locals of scrape_site: URL, parsed page, candidates
\* site_offers    what the last scrape_site call returned (line 300)
\* results, errors               the two lists of the run block (lines 281-282)
\* events         template tests, sleeps and fetches done so far, with their row
\* outcome        how each handled row ended: skipped, raised, or its offers
\* final          the sorted frame df (line 317)
\* notice         which message the run ended with (lines 278, 312, 323)
VARIABLES query, rows, delay, web, pc, i, cfg, search_url, doc, found,
          site_offers, results, errors, events, outcome, final, notice

vars == <<query, rows, delay, web, pc, i, cfg, search_url, doc, found,
          site_offers, results, errors, events, outcome, final, notice>>

\* ---------------------------------------------------------------- bounds
MaxSites == 2
MaxCards == 2
MaxOffers == 2

\* ---------------------------------------------------------------- text helpers
SeqsUpTo(S, n) == UNION {[1..k -> S] : k \in 0..n}

RECURSIVE Concat(_)
Concat(ss) == IF ss = <<>> THEN <<>> ELSE Head(ss) \o Concat(Tail(ss))

Whitespace == {" ", "\t"}

Lower(c) ==
  CASE c = "A" -> "a"
    [] c = "B" -> "b"
    [] c = "(JSON-LD Product)" -> "(json-ld product)"
    [] OTHER -> c

LowerText(s) == [k \in 1..Len(s) |-> Lower(s[k])]

RECURSIVE lstrip(_)
lstrip(s) == IF s # <<>> /\ Head(s) \in Whitespace THEN lstrip(Tail(s)) ELSE s

RECURSIVE rstrip(_)
rstrip(s) ==
  IF s # <<>> /\ s[Len(s)] \in Whitespace THEN rstrip(SubSeq(s, 1, Len(s) - 1)) ELSE s

\* str.strip()
strip(s) == rstrip(lstrip(s))

\* re.sub(r"\s+", " ", s): every run of whitespace becomes one space
RECURSIVE collapse(_)
collapse(s) ==
  IF s = <<>> THEN <<>>
  ELSE IF Head(s) \in Whitespace
       THEN <<" ">> \o collapse(lstrip(s))
       ELSE <<Head(s)>> \o collapse(Tail(s))

normalize_space(s) == collapse(strip(s))

\* Python's "q in t" on strings
Contains(t, q) ==
  \E k \in 0..(Len(t) - Len(q)) : SubSeq(t, k + 1, k + Len(q)) = q

wildcard_match(q, text) ==
  Contains(LowerText(normalize_space(text)), LowerText(normalize_space(q)))

\* urllib.parse.quote_plus on the letters and spaces used here
quote_plus(s) ==
  [k \in 1..Len(s) |-> IF s[k] = " " THEN "+" ELSE IF s[k] = "\t" THEN "%09" ELSE s[k]]

\* str.replace("{query}", enc)
RECURSIVE replace_query(_, _)
replace_query(t, enc) ==
  IF t = <<>> THEN <<>>
  ELSE IF Head(t) = "{query}" THEN enc \o replace_query(Tail(t), enc)
       ELSE <<Head(t)>> \o replace_query(Tail(t), enc)

HasPlaceholder(t) == \E k \in 1..Len(t) : t[k] = "{query}"

Origins == {"http://s"}

\* urllib.parse.urljoin for absolute URLs and absolute-path references
urljoin(base, ref) ==
  IF ref = <<>> THEN base
  ELSE IF Head(ref) \in Origins THEN ref
  ELSE IF base # <<>> /\ Head(base) \in Origins THEN <<Head(base)>> \o ref
  ELSE ref

absolutize_url(base, maybe_relative) ==
  IF maybe_relative = <<>> THEN <<>> ELSE urljoin(base, maybe_relative)

\* ---------------------------------------------------------------- parse_price
\* A price text is described by what it is to the code: whether it is the
\* empty string, what Price.fromstring yields for it (<<>> when amount is
\* None) and what float() yields for the sanitized text (<<>> when it raises).
parse_price(pt) ==
  IF pt.empty THEN [amount |-> <<>>, currency |-> ""]
  ELSE IF pt.lib = <<>>
       THEN IF pt.cleaned = <<>>
            THEN [amount |-> <<>>, currency |-> ""]
            ELSE [amount |-> pt.cleaned, currency |-> ""]
       ELSE [amount |-> <<pt.lib[1].amount>>, currency |-> pt.lib[1].currency]

\* ---------------------------------------------------------------- JSON-LD
OfferTypes == {"Product", "Offer", "AggregateOffer"}

\* walk: the dict itself when its @type is one of the three, then every dict
\* below it (here: below its "offers" value), depth first.
RECURSIVE walk(_)
walk(obj) ==
  IF ~obj.isdict THEN <<>>
  ELSE (IF obj.type \in OfferTypes THEN <<obj>> ELSE <<>>)
       \o (IF obj.offers.k \in {"dict", "list"}
           THEN Concat([k \in 1..Len(obj.offers.items) |-> walk(obj.offers.items[k])])
           ELSE <<>>)

\* float(price_val) inside try/except: a number or a numeric string converts,
\* any other string does not.
to_float(pv) == IF pv.k \in {"num", "str"} THEN <<pv.v>> ELSE <<>>

JsonLdSentinel == <<"(JSON-LD Product)">>
NoTitleSentinel == <<"(no title found)">>

_offers_from_offer_obj(offer, title, base_url) ==
  LET currency == offer.priceCurrency
      abs == absolutize_url(base_url, offer.url)
      url == IF abs = <<>> THEN base_url ELSE abs
      price_val == IF offer.price.k = "absent" THEN offer.lowPrice ELSE offer.price
      price == IF price_val.k = "absent" THEN <<>> ELSE to_float(price_val)
  IN IF price # <<>>
     THEN << [site |-> <<>>,
              title |-> IF title = <<>> THEN JsonLdSentinel ELSE title,
              price |-> price[1],
              currency |-> currency,
              url |-> url,
              matched |-> TRUE] >>
     ELSE <<>>

\* obj.get("name") or "" ; a name that is not a string makes normalize_space raise
NameText(obj) == IF obj.name.k = "str" THEN obj.name.v ELSE <<>>

\* the body of the loop "for obj in walk(node)"
obj_offers(obj, base_url) ==
  LET title == normalize_space(NameText(obj))
  IN IF obj.type = "Product"
     THEN IF obj.offers.k = "dict"
          THEN _offers_from_offer_obj(obj.offers.items[1], title, base_url)
          ELSE IF obj.offers.k = "list"
               THEN Concat([k \in 1..Len(obj.offers.items) |->
                              IF obj.offers.items[k].isdict
                              THEN _offers_from_offer_obj(obj.offers.items[k], title, base_url)
                              ELSE <<>>])
               ELSE <<>>
     ELSE _offers_from_offer_obj(obj, title, base_url)

NodeRaises(node) ==
  \E k \in 1..Len(walk(node)) : walk(node)[k].name.k = "nonstr"

_extract_offers_from_jsonld_node(node, base_url) ==
  Concat([k \in 1..Len(walk(node)) |-> obj_offers(walk(node)[k], base_url)])

\* a script that is not JSON is skipped; a node whose extraction raises is skipped
extract_jsonld_offers(scripts, base_url) ==
  Concat([s \in 1..Len(scripts) |->
            IF ~scripts[s].valid THEN <<>>
            ELSE Concat([n \in 1..Len(scripts[s].nodes) |->
                           IF NodeRaises(scripts[s].nodes[n]) THEN <<>>
                           ELSE _extract_offers_from_jsonld_node(scripts[s].nodes[n], base_url)])])

\* ---------------------------------------------------------------- scrape_site
Min(a, b) == IF a < b THEN a ELSE b

\* one iteration of "for c in cards[: cfg.max_results]" (lines 172-205)
card_offer(q, c, url, card) ==
  LET title == IF c.title_selector # <<>> /\ card.title # <<>>
               THEN normalize_space(card.title[1]) ELSE <<>>
      parsed == IF c.price_selector # <<>> /\ card.price # <<>>
                THEN parse_price(card.price[1])
                ELSE [amount |-> <<>>, currency |-> ""]
      link == IF c.link_selector # <<>> /\ card.href # <<>>
              THEN absolutize_url(url, card.href) ELSE <<>>
  IN IF parsed.amount = <<>> THEN <<>>
     ELSE << [site |-> c.name,
              title |-> IF title = <<>> THEN NoTitleSentinel ELSE title,
              price |-> parsed.amount[1],
              currency |-> IF parsed.currency # "" THEN parsed.currency ELSE c.currency_hint,
              url |-> IF link = <<>> THEN url ELSE link,
              matched |-> IF title # <<>> THEN wildcard_match(q, title) ELSE TRUE] >>

\* 1) Configured selectors (lines 169-205)
selector_offers(q, c, url, d) ==
  LET cards == IF c.card_selector # <<>> THEN d.cards ELSE <<>>
      n == Min(c.max_results, Len(cards))
  IN Concat([k \in 1..n |-> card_offer(q, c, url, cards[k])])

\* 2) JSON-LD fallback: one iteration of the loop at lines 208-213
tag_jsonld(q, c, o) ==
  [o EXCEPT !.site = c.name,
            !.matched = IF o.title # <<>> THEN wildcard_match(q, o.title) ELSE TRUE,
            !.currency = IF c.currency_hint # "" /\ o.currency = ""
                         THEN c.currency_hint ELSE o.currency]

jsonld_offers(q, c, url, d) ==
  LET raw == extract_jsonld_offers(d.scripts, url)
  IN [k \in 1..Len(raw) |-> tag_jsonld(q, c, raw[k])]

\* the list "found" before filtering
found_offers(q, c, url, d) == selector_offers(q, c, url, d) \o jsonld_offers(q, c, url, d)

Sentinels == {NoTitleSentinel, JsonLdSentinel}

\* a filter that forgets the sentinel titles
RetainMatchedOnly(x) == x.matched

\* the condition of the list comprehension at line 216
Retain(x) == x.matched \/ x.title \in Sentinels

Key(x) == <<x.url, x.price, x.currency>>

RECURSIVE DedupFrom(_, _)
DedupFrom(xs, seen) ==
  IF xs = <<>> THEN <<>>
  ELSE IF Key(Head(xs)) \in seen
       THEN DedupFrom(Tail(xs), seen)
       ELSE <<Head(xs)>> \o DedupFrom(Tail(xs), seen \cup {Key(Head(xs))})

\* a dedup in which a later offer replaces an earlier one with its key
RECURSIVE DedupLastFrom(_)
DedupLastFrom(xs) ==
  IF xs = <<>> THEN <<>>
  ELSE IF \E k \in 2..Len(xs) : Key(xs[k]) = Key(Head(xs))
       THEN DedupLastFrom(Tail(xs))
       ELSE <<Head(xs)>> \o DedupLastFrom(Tail(xs))

DedupLastWins(xs) == DedupLastFrom(xs)

\* lines 217-222: dict keyed by (url, price, currency), first occurrence kept,
\* values in insertion order
Dedup(xs) == DedupFrom(xs, {})

filter_dedup(fs) == Dedup(SelectSeq(fs, Retain))

\* ---------------------------------------------------------------- inputs
\* Queries typed into the sidebar: two blank ones, two that can match.
Queries == { <<>>, <<" ", "\t">>, <<"a">>, <<" ", "A", "\t", " ", "b">> }

Delays == {0, 3}

TemplateOk == <<"http://s", "/q=", "{query}">>
TemplatePadded == <<" ", "http://s", "/q=", "{query}", " ">>
TemplateNoQuery == <<"http://s", "/q">>
TemplateBlank == <<" ">>

MaxBlank == [k |-> "blank", v |-> 0]
MaxOne == [k |-> "num", v |-> 1]

Row(n, t, cs, ts, hint, mr) ==
  [name |-> n, search_url_template |-> t, card_selector |-> cs,
   title_selector |-> ts, price_selector |-> <<".p">>, link_selector |-> <<"a">>,
   currency_hint |-> hint, max_results |-> mr]

\* Rows of the site table (after fillna("")); max_results comes from a number
\* column, so it is a number or blank.
Rows ==
  { Row(<<"A">>, TemplateOk, <<".c">>, <<".t">>, "GBP", MaxBlank),
    Row(<<" ">>, TemplatePadded, <<>>, <<".t">>, "", MaxBlank),
    Row(<<"B">>, TemplateOk, <<" ", ".c">>, <<>>, "", MaxOne),
    Row(<<"B", " ">>, TemplateNoQuery, <<".c">>, <<".t">>, "GBP", MaxBlank),
    Row(<<>>, TemplateBlank, <<".c">>, <<".t">>, "", MaxBlank),
    Row(<<"A">>, TemplateOk, <<"[">>, <<".t">>, "", MaxBlank) }

\* price texts
PtEmpty == [empty |-> TRUE, lib |-> <<>>, cleaned |-> <<>>]
PtGbp5 == [empty |-> FALSE, lib |-> <<[amount |-> 5, currency |-> "GBP"]>>, cleaned |-> <<5>>]
PtPlain5 == [empty |-> FALSE, lib |-> <<[amount |-> 5, currency |-> ""]>>, cleaned |-> <<5>>]
PtFallback7 == [empty |-> FALSE, lib |-> <<>>, cleaned |-> <<7>>]
PtBad == [empty |-> FALSE, lib |-> <<>>, cleaned |-> <<>>]

Card(t, p, h) == [title |-> t, price |-> p, href |-> h]

\* result cards as the selectors see them: the text under the title selector
\* (<<>> when nothing matches), the price text, the href of the link
Cards ==
  { Card(<< <<"A">> >>, <<PtGbp5>>, <<"/p1">>),
    Card(<< <<"b">> >>, <<PtGbp5>>, <<"/p1">>),
    Card(<< <<" ", "A", " ", "\t", "B", " ">> >>, <<PtGbp5>>, <<"http://s", "/p1">>),
    Card(<<>>, <<PtPlain5>>, <<>>),
    Card(<< <<"A">> >>, <<PtFallback7>>, <<>>),
    Card(<< <<"A">> >>, <<PtBad>>, <<"/p2">>),
    Card(<< <<"b">> >>, <<>>, <<"/p2">>) }

Absent == [k |-> "absent", v |-> 0]
Num(n) == [k |-> "num", v |-> n]
Str(n) == [k |-> "str", v |-> n]
BadStr == [k |-> "bad", v |-> 0]

NoName == [k |-> "absent", v |-> <<>>]
Name(t) == [k |-> "str", v |-> t]
NonStrName == [k |-> "nonstr", v |-> <<>>]

NoOffers == [k |-> "absent", items |-> <<>>]

Dict(ty, nm, pr, lo, cur, u, off) ==
  [isdict |-> TRUE, type |-> ty, name |-> nm, price |-> pr, lowPrice |-> lo,
   priceCurrency |-> cur, url |-> u, offers |-> off]

\* a JSON value that is neither an object nor an array
Scalar ==
  [isdict |-> FALSE, type |-> "", name |-> NoName, price |-> Absent, lowPrice |-> Absent,
   priceCurrency |-> "", url |-> <<>>, offers |-> NoOffers]

OfferTyped == Dict("Offer", NoName, Num(5), Absent, "", <<>>, NoOffers)
OfferUntyped == Dict("", NoName, Str(5), Absent, "GBP", <<"/p1">>, NoOffers)

\* offer objects
OfferObjs ==
  { OfferTyped,
    OfferUntyped,
    Dict("Offer", NoName, BadStr, Num(3), "", <<>>, NoOffers),
    Dict("AggregateOffer", NoName, Absent, Num(3), "USD", <<>>, NoOffers),
    Dict("Offer", Name(<<"A">>), Num(0 - 1), Absent, "", <<"/p2">>, NoOffers),
    Dict("Offer", NonStrName, Num(5), Absent, "", <<>>, NoOffers) }

ListItems == {OfferTyped, OfferUntyped}

OffersFields ==
  {[k |-> "dict", items |-> <<o>>] : o \in OfferObjs}
  \cup {[k |-> "list", items |-> s] : s \in SeqsUpTo(ListItems, MaxOffers)}
  \cup {[k |-> "list", items |-> <<Scalar, OfferTyped>>],
        [k |-> "scalar", items |-> <<>>], NoOffers}

Products ==
  {Dict("Product", Name(n), Absent, Absent, "", <<>>, f) :
      n \in {<<"A", " ">>, <<"b">>}, f \in OffersFields}
  \cup {Dict("Product", NoName, Absent, Absent, "", <<>>,
             [k |-> "dict", items |-> <<OfferUntyped>>])}

Nodes == Products \cup OfferObjs

\* script blocks: not JSON, one object, or an array of objects
Scripts ==
  {[valid |-> FALSE, nodes |-> <<>>]}
  \cup {[valid |-> TRUE, nodes |-> <<n>>] : n \in Nodes}
  \cup {[valid |-> TRUE, nodes |-> <<OfferTyped, OfferUntyped>>]}

MaxScripts == 1

Doc(c, s) == [cards |-> c, scripts |-> s]

\* pages a site may answer with
Docs ==
  {Doc(c, <<>>) : c \in SeqsUpTo(Cards, MaxCards)}
  \cup {Doc(<<>>, s) : s \in SeqsUpTo(Scripts, MaxScripts)}
  \cup {Doc(<<c>>, <<s>>) : c \in Cards, s \in Scripts}

\* the few pages used when several sites are searched in one run
RunDocs ==
  { Doc(<<>>, <<>>),
    Doc(<< Card(<< <<"A">> >>, <<PtGbp5>>, <<"/p1">>),
           Card(<< <<"A">> >>, <<PtFallback7>>, <<>>) >>, <<>>),
    Doc(<< Card(<<>>, <<PtPlain5>>, <<>>) >>,
        << [valid |-> TRUE,
            nodes |-> << Dict("Product", Name(<<"A", " ">>), Absent, Absent, "", <<>>,
                              [k |-> "list", items |-> <<OfferTyped, OfferUntyped>>]) >>] >>) }

\* the pages a fetch may return: any page when one site is searched, the few
\* pages of RunDocs when several are
Pages(w) == IF w = "any" THEN Docs ELSE RunDocs

FetchErrors == { <<"timed out">> }

\* ---------------------------------------------------------------- the run block
DefaultMaxResults == 10

UnnamedSite == <<"Unnamed site">>

\* SiteConfig(...) at lines 286-295
MakeCfg(row) ==
  [name |-> IF strip(row.name) = <<>> THEN UnnamedSite ELSE strip(row.name),
   search_url_template |-> strip(row.search_url_template),
   card_selector |-> strip(row.card_selector),
   title_selector |-> strip(row.title_selector),
   price_selector |-> strip(row.price_selector),
   link_selector |-> strip(row.link_selector),
   currency_hint |-> row.currency_hint,
   max_results |-> IF row.max_results.k = "num" THEN row.max_results.v
                   ELSE DefaultMaxResults]

NoCfg == MakeCfg(Row(<<>>, <<>>, <<>>, <<>>, "", MaxBlank))

\* soup.select raises on a selector that is not valid CSS
SelectorRaises(c) == c.card_selector = <<"[">>

\* f"{row.get('name', 'site')}: {e}"
ErrorText(row, msg) == row.name \o <<":", " ">> \o msg

\* f"{cfg.name}: search_url_template must include {{query}}"
TemplateMessage(c) == c.name \o <<":", " ", "search_url_template must include {query}">>

SelectorMessage == <<"Malformed attribute selector">>

\* the blank test without strip()
BlankQueryUnstripped(q) == q = <<>>

\* not query.strip()
BlankQuery(q) == strip(q) = <<>>

\* a scrape_site without the template test
TemplateInvalidNever(c) == FALSE

\* the template test at line 153
TemplateInvalid(c) == ~HasPlaceholder(c.search_url_template)

\* the skip at line 297
TemplateEmpty(c) == c.search_url_template = <<>>

\* lines 156-157
build_search_url(q, c) == replace_query(c.search_url_template, quote_plus(strip(q)))

\* Orders a price-sorted frame can come back in: sort_values uses the default
\* kind (quicksort), which does not promise an order among equal keys.
RECURSIVE Arrangements(_, _)
Arrangements(xs, idx) ==
  IF idx = {} THEN {<<>>}
  ELSE UNION { { <<xs[k]>> \o t : t \in Arrangements(xs, idx \ {k}) } :
               k \in {j \in idx : \A m \in idx : xs[j].price <= xs[m].price} }

\* a frame left in insertion order
Unsorted(xs) == {xs}

\* df.sort_values(["price"], ascending=True) at line 317
sort_values(xs) == Arrangements(xs, 1..Len(xs))

Record(kind, offers) == [kind |-> kind, offers |-> offers]

Fail(kind, msg) ==
  /\ errors' = Append(errors, [row |-> i, text |-> ErrorText(rows[i], msg)])
  /\ outcome' = Append(outcome, Record(kind, <<>>))
  /\ i' = i + 1
  /\ pc' = "row"

Init ==
  /\ query \in Queries
  /\ delay \in Delays
  /\ rows \in SeqsUpTo(Rows, MaxSites)
  /\ web = "few"
  /\ pc = "idle"
  /\ i = 1
  /\ cfg = NoCfg
  /\ search_url = <<>>
  /\ doc = Doc(<<>>, <<>>)
  /\ found = <<>>
  /\ site_offers = <<>>
  /\ results = <<>>
  /\ errors = <<>>
  /\ events = <<>>
  /\ outcome = <<>>
  /\ final = <<>>
  /\ notice = ""

\* a single site searched against any page
InitScrape ==
  /\ query \in Queries
  /\ delay \in Delays
  /\ rows \in {<<r>> : r \in Rows}
  /\ web = "any"
  /\ pc = "idle"
  /\ i = 1
  /\ cfg = NoCfg
  /\ search_url = <<>>
  /\ doc = Doc(<<>>, <<>>)
  /\ found = <<>>
  /\ site_offers = <<>>
  /\ results = <<>>
  /\ errors = <<>>
  /\ events = <<>>
  /\ outcome = <<>>
  /\ final = <<>>
  /\ notice = ""

\* "if run:" with the blank-query stop (lines 276-282)
Run ==
  /\ pc = "idle"
  /\ IF BlankQuery(query)
     THEN /\ notice' = "blank_query"
          /\ pc' = "stopped"
     ELSE /\ notice' = notice
          /\ pc' = "row"
  /\ UNCHANGED <<query, rows, delay, web, i, cfg, search_url, doc, found,
                 site_offers, results, errors, events, outcome, final>>

\* top of the loop body: build the SiteConfig, skip an empty template (lines 284-298)
NextRow ==
  /\ pc = "row"
  /\ i <= Len(rows)
  /\ cfg' = MakeCfg(rows[i])
  /\ IF TemplateEmpty(cfg')
     THEN /\ outcome' = Append(outcome, Record("skipped", <<>>))
          /\ i' = i + 1
          /\ pc' = "row"
     ELSE /\ pc' = "scrape"
          /\ UNCHANGED <<i, outcome>>
  /\ UNCHANGED errors
  /\ UNCHANGED <<query, rows, delay, web, search_url, doc, found, site_offers,
                 results, events, final, notice>>

\* the courtesy sleep moved in front of the template test
ScrapeSleepFirst ==
  /\ pc = "scrape"
  /\ events' = events \o (IF delay > 0 THEN <<[row |-> i, ev |-> "sleep"]>> ELSE <<>>)
                      \o <<[row |-> i, ev |-> "validate"]>>
  /\ IF TemplateInvalid(cfg)
     THEN /\ Fail("config_error", TemplateMessage(cfg))
          /\ UNCHANGED search_url
     ELSE /\ search_url' = build_search_url(query, cfg)
          /\ pc' = "fetch"
          /\ UNCHANGED <<i, errors, outcome>>
  /\ UNCHANGED <<query, rows, delay, web, cfg, doc, found, site_offers,
                 results, final, notice>>

\* scrape_site, lines 153-157
ScrapeValidate ==
  /\ pc = "scrape"
  /\ events' = Append(events, [row |-> i, ev |-> "validate"])
  /\ IF TemplateInvalid(cfg)
     THEN /\ Fail("config_error", TemplateMessage(cfg))
          /\ UNCHANGED search_url
     ELSE /\ search_url' = build_search_url(query, cfg)
          /\ pc' = IF delay > 0 THEN "sleep" ELSE "fetch"
          /\ UNCHANGED <<i, errors, outcome>>
  /\ UNCHANGED <<query, rows, delay, web, cfg, doc, found, site_offers,
                 results, final, notice>>

\* scrape_site, lines 159-160
ScrapeSleep ==
  /\ pc = "sleep"
  /\ events' = Append(events, [row |-> i, ev |-> "sleep"])
  /\ pc' = "fetch"
  /\ UNCHANGED <<query, rows, delay, web, i, cfg, search_url, doc, found,
                 site_offers, results, errors, outcome, final, notice>>

\* scrape_site, line 162: the request fails (status, timeout) or returns a page
ScrapeFetch ==
  /\ pc = "fetch"
  /\ events' = Append(events, [row |-> i, ev |-> "fetch"])
  /\ \/ /\ \E msg \in FetchErrors : Fail("fetch_error", msg)
        /\ UNCHANGED doc
     \/ /\ \E d \in Pages(web) : doc' = d
        /\ pc' = "extract"
        /\ UNCHANGED <<i, errors, outcome>>
  /\ UNCHANGED <<query, rows, delay, web, cfg, search_url, found, site_offers,
                 results, final, notice>>

\* scrape_site, lines 163-222, and results.extend at line 301
ScrapeExtract ==
  /\ pc = "extract"
  /\ IF SelectorRaises(cfg)
     THEN /\ Fail("parse_error", SelectorMessage)
          /\ UNCHANGED <<found, site_offers, results>>
     ELSE /\ found' = found_offers(query, cfg, search_url, doc)
          /\ site_offers' = filter_dedup(found')
          /\ results' = results \o site_offers'
          /\ outcome' = Append(outcome, Record("ok", site_offers'))
          /\ i' = i + 1
          /\ pc' = "row"
          /\ UNCHANGED errors
  /\ UNCHANGED <<query, rows, delay, web, cfg, search_url, doc, events, final, notice>>

\* after the loop: the no-results stop, else the sorted table (lines 306-324)
Finish ==
  /\ pc = "row"
  /\ i > Len(rows)
  /\ IF results = <<>>
     THEN /\ notice' = "no_results"
          /\ final' = <<>>
     ELSE /\ notice' = "shown"
          /\ final' \in sort_values(results)
  /\ pc' = "done"
  /\ UNCHANGED <<query, rows, delay, web, i, cfg, search_url, doc, found,
                 site_offers, results, errors, events, outcome>>

Next ==
  \/ Run
  \/ NextRow
  \/ ScrapeValidate
  \/ ScrapeSleep
  \/ ScrapeFetch
  \/ ScrapeExtract
  \/ Finish

Spec == Init /\ [][Next]_vars

SpecScrape == InitScrape /\ [][Next]_vars

TypeOK == pc \in {"idle", "stopped", "row", "scrape", "sleep", "fetch", "extract", "done"}

\* ---------------------------------------------------------------- properties
Range(xs) == {xs[k] : k \in 1..Len(xs)}

ErrorsOf(j) == SelectSeq(errors, LAMBDA e : e.row = j)

EventsOf(j) ==
  LET mine == SelectSeq(events, LAMBDA e : e.row = j)
  IN [k \in 1..Len(mine) |-> mine[k].ev]

Prefixes(xs) == {SubSeq(xs, 1, k) : k \in 0..Len(xs)}

Failed(o) == o.kind \in {"config_error", "fetch_error", "parse_error"}

SiteName(j) == MakeCfg(rows[j]).name

TrimmedTemplate(j) == strip(rows[j].search_url_template)

LacksQuery(j) == \A k \in 1..Len(TrimmedTemplate(j)) : TrimmedTemplate(j)[k] # "{query}"

\* C1: when the run is over every row has been handled; a site whose scrape
\* failed left no offers and exactly one error string, which contains the
\* site's name; the combined list is the offers of the successful sites, in order.
C1_FailuresIsolated ==
  pc = "done" =>
    /\ Len(outcome) = Len(rows)
    /\ results = Concat([j \in 1..Len(outcome) |-> outcome[j].offers])
    /\ \A j \in 1..Len(outcome) :
         Failed(outcome[j]) =>
           /\ outcome[j].offers = <<>>
           /\ Len(ErrorsOf(j)) = 1
           /\ Contains(ErrorsOf(j)[1].text, SiteName(j))

\* C2 as stated: every handled site whose template has no {query}, the empty
\* template included, has a configuration error in the error list.
C2_EveryMissingPlaceholderReported ==
  \A j \in 1..Len(outcome) :
    LacksQuery(j) =>
      \E k \in 1..Len(errors) :
        /\ errors[k].row = j
        /\ errors[k].text = ErrorText(rows[j], TemplateMessage(MakeCfg(rows[j])))

\* C2 (amended): a handled site whose trimmed template is not empty and has no
\* {query} has exactly one error entry, the configuration error; a site whose
\* trimmed template is empty is skipped and has no error entry.
C2_NonEmptyMissingPlaceholderReported ==
  \A j \in 1..Len(outcome) :
    /\ (LacksQuery(j) /\ TrimmedTemplate(j) # <<>>) =>
         /\ outcome[j].kind = "config_error"
         /\ ErrorsOf(j) =
              << [row |-> j,
                  text |-> ErrorText(rows[j], TemplateMessage(MakeCfg(rows[j])))] >>
    /\ TrimmedTemplate(j) = <<>> =>
         /\ outcome[j].kind = "skipped"
         /\ ErrorsOf(j) = <<>>

C2_Witness ==
  /\ pc = "done"
  /\ \E j \in 1..Len(outcome) : LacksQuery(j) /\ TrimmedTemplate(j) # <<>>
  /\ \E j \in 1..Len(outcome) : TrimmedTemplate(j) = <<>>

FullScrapeEvents ==
  <<"validate">> \o (IF delay > 0 THEN <<"sleep">> ELSE <<>>) \o <<"fetch">>

\* C3: the effects of one scrape are, in order, the template test, the sleep
\* (when the delay is positive) and one fetch; a site whose template has no
\* {query} ends in a configuration error with neither sleep nor fetch; a scrape
\* that got past the test has done all of them, once each.
C3_ValidateSleepFetch ==
  \A j \in 1..Len(rows) :
    /\ EventsOf(j) \in Prefixes(FullScrapeEvents)
    /\ j <= Len(outcome) =>
         /\ (LacksQuery(j) /\ TrimmedTemplate(j) # <<>>) =>
              (outcome[j].kind = "config_error" /\ EventsOf(j) = <<"validate">>)
         /\ outcome[j].kind = "config_error" => EventsOf(j) = <<"validate">>
         /\ outcome[j].kind \in {"ok", "fetch_error", "parse_error"} =>
              EventsOf(j) = FullScrapeEvents

C3_Witness ==
  /\ delay > 0
  /\ \E j \in 1..Len(outcome) : outcome[j].kind = "config_error"
  /\ \E j \in 1..Len(outcome) :
       outcome[j].kind = "ok" /\ EventsOf(j) = <<"validate", "sleep", "fetch">>

RECURSIVE InsertByPrice(_, _)
InsertByPrice(x, sorted) ==
  IF sorted = <<>> THEN <<x>>
  ELSE IF x.price < Head(sorted).price THEN <<x>> \o sorted
       ELSE <<Head(sorted)>> \o InsertByPrice(x, Tail(sorted))

RECURSIVE StableByPrice(_)
StableByPrice(xs) ==
  IF xs = <<>> THEN <<>>
  ELSE InsertByPrice(xs[Len(xs)], StableByPrice(SubSeq(xs, 1, Len(xs) - 1)))

Ascending(xs) == \A k \in 1..(Len(xs) - 1) : xs[k].price <= xs[k + 1].price

Count(xs, x) == Cardinality({k \in 1..Len(xs) : xs[k] = x})

SameOffers(xs, ys) ==
  /\ Len(xs) = Len(ys)
  /\ \A x \in Range(xs) \cup Range(ys) : Count(xs, x) = Count(ys, x)

\* C4 as stated: the table shown is the combined list sorted ascending by
\* price, offers of equal price kept in the order they were inserted.
C4_SortedStable ==
  (pc = "done" /\ notice = "shown") => final = StableByPrice(results)

\* C4 (amended): the table shown holds exactly the offers of the combined list,
\* ascending by price; the order among offers of equal price is not fixed.
C4_SortedPermutation ==
  (pc = "done" /\ notice = "shown") =>
    /\ Ascending(final)
    /\ SameOffers(final, results)

C4_Witness ==
  /\ pc = "done"
  /\ notice = "shown"
  /\ Len(final) >= 3
  /\ ~Ascending(results)
  /\ \E k \in 1..(Len(final) - 1) : final[k].price < final[k + 1].price

\* the retention condition, written out
Retainable(x) ==
  x.matched \/ x.title = <<"(no title found)">> \/ x.title = <<"(JSON-LD Product)">>

Candidates == SelectSeq(found, Retainable)

FirstIndexes(xs) == {k \in 1..Len(xs) : \A m \in 1..(k - 1) : Key(xs[m]) # Key(xs[k])}

NthOf(S, n) == CHOOSE k \in S : Cardinality({m \in S : m < k}) = n - 1

\* C5: the list one scrape returns has no two offers with the same
\* (url, price, currency); it is the filtered candidates that are the first
\* with their triple, whole, in their original order.
C5_DedupFirstWins ==
  /\ \A a, b \in 1..Len(site_offers) :
       Key(site_offers[a]) = Key(site_offers[b]) => a = b
  /\ Len(site_offers) = Cardinality(FirstIndexes(Candidates))
  /\ \A n \in 1..Len(site_offers) :
       site_offers[n] = Candidates[NthOf(FirstIndexes(Candidates), n)]

C5_Witness ==
  /\ Len(site_offers) >= 2
  /\ \E a, b \in 1..Len(Candidates) :
       /\ a < b
       /\ Key(Candidates[a]) = Key(Candidates[b])
       /\ Candidates[a].title # Candidates[b].title
       /\ Candidates[a] \in Range(site_offers)

\* C6: every offer a scrape returns has a price that is not negative.
C6_PriceNonNegative ==
  \A k \in 1..Len(site_offers) : site_offers[k].price >= 0

\* C7: a scrape returns only candidates that are matched or carry a sentinel
\* title, and returns every such candidate unless an earlier such candidate has
\* the same (url, price, currency).
C7_RetainIffMatchedOrSentinel ==
  /\ \A k \in 1..Len(site_offers) :
       Retainable(site_offers[k]) /\ site_offers[k] \in Range(found)
  /\ \A k \in 1..Len(found) :
       Retainable(found[k]) =>
         \/ found[k] \in Range(site_offers)
         \/ \E m \in 1..(k - 1) : Retainable(found[m]) /\ Key(found[m]) = Key(found[k])

C7_Witness ==
  /\ \E k \in 1..Len(found) : ~Retainable(found[k])
  /\ \E k \in 1..Len(site_offers) :
       ~site_offers[k].matched /\ site_offers[k].title = <<"(JSON-LD Product)">>
  /\ \E k \in 1..Len(site_offers) : site_offers[k].matched

AllBlank(q) == \A k \in 1..Len(q) : q[k] \in {" ", "\t"}

\* C8: with an empty or whitespace-only query the run stops at the blank-query
\* error: no row is handled, nothing is slept or fetched, and there are no
\* offers and no site errors.
C8_BlankQueryStops ==
  (AllBlank(query) /\ pc # "idle") =>
    /\ pc = "stopped"
    /\ notice = "blank_query"
    /\ i = 1
    /\ events = <<>>
    /\ outcome = <<>>
    /\ results = <<>>
    /\ errors = <<>>
    /\ final = <<>>

C8_Witness == query # <<>> /\ AllBlank(query) /\ pc = "stopped" /\ rows # <<>>

ProductNodes ==
  UNION { {doc.scripts[s].nodes[n] : n \in 1..Len(doc.scripts[s].nodes)} :
          s \in {t \in 1..Len(doc.scripts) : doc.scripts[t].valid} }

OfferObjects(p) == SelectSeq(p.offers.items, LAMBDA o : o.isdict)

\* C9: for a Product whose offers field is an offer object or an array of them,
\* the extractor emits one candidate for each offer object with a parseable
\* price, titled after the Product, and nothing else.
C9_OneCandidatePerOfferObject ==
  \A p \in ProductNodes :
    (p.type = "Product" /\ p.offers.k \in {"dict", "list"} /\ ~NodeRaises(p)) =>
      _extract_offers_from_jsonld_node(p, search_url) =
        Concat([k \in 1..Len(OfferObjects(p)) |->
                  _offers_from_offer_obj(OfferObjects(p)[k],
                                         normalize_space(NameText(p)), search_url)])

NonMatchingProduct(p) ==
  /\ p.type = "Product"
  /\ normalize_space(NameText(p)) # <<>>
  /\ ~wildcard_match(query, NameText(p))

\* C10: when the page holds nothing but Products whose names are known and do
\* not match the query, the scrape returns no offer.
C10_NonMatchingProductFiltered ==
  ( /\ Len(outcome) = 1
    /\ outcome[1].kind = "ok"
    /\ doc.cards = <<>>
    /\ ProductNodes # {}
    /\ \A s \in 1..Len(doc.scripts) : doc.scripts[s].valid
    /\ \A p \in ProductNodes : NonMatchingProduct(p) )
  => site_offers = <<>>

====
